---- MODULE Spec2Model ----
(***************************************************************************)
(* State-machine model of spill-ring's SpillRing (src/spill-ring/src/      *)
(* ring.rs), atomics build: an SPSC ring buffer whose producer evicts the  *)
(* oldest item to a spout when the ring is full.                           *)
(*                                                                         *)
(* The shared-reference operations push(&self) and pop(&self) are split    *)
(* into one step per access to shared memory (counters and slots), so that *)
(* every interleaving of one producer and one consumer is explored.  The   *)
(* exclusive-reference operations (&mut self) are single steps, enabled    *)
(* only while no shared-reference call is in flight.                       *)
(*                                                                         *)
(* Items are identified by their push order: the k-th item ever handed to  *)
(* the ring is the number k.  The interleaving semantics is sequentially   *)
(* consistent; counters are far from the usize wrap-around.                *)
(***************************************************************************)
EXTENDS Integers, Sequences, FiniteSets, TLC

\* ---------------------------------------------------------------- bounds
LogN == 1
MaxPush == 6
MaxSlice == 3

\* ------------------------------------------------------------- constants
\* Capacity; the constructors assert N.is_power_of_two().
N == 2 ^ LogN

\* Largest value of the modelled counter word (stand-in for usize::MAX).
UsizeMax == 2147483647

\* Bit pattern of a slot that was never written (warm() zero-fills it).
Uninit == 0

\* Bit pattern of a slot copied while the producer was writing it.
Torn == -1

Slots == 0..(N - 1)

\* usize::wrapping_sub
WrapSub(a, b) == IF a >= b THEN a - b ELSE UsizeMax - (b - a) + 1

\* counter & (N - 1), N a power of two
Mask(c) == c % N

\* tail.wrapping_sub(head) >= N: the test push, push_mut and try_push use
IsFullOffByOne(t, h) == WrapSub(t, h) > N

IsFull(t, h) == WrapSub(t, h) >= N

\* if evict < head { evict = head; }: the index push evicts
EvictIndexNoClamp(evict, h) == evict

\* (variant: the index evicted is head, as in the non-atomic build)
EvictIndexAtHead(evict, h) == h

EvictIndex(evict, h) == IF evict < h THEN h ELSE evict

\* if head < evict { head = evict; }: the index pop, pop_mut and flush start at
ReconcileNoSkip(h, evict) == h

Reconcile(h, evict) == IF h < evict THEN evict ELSE h

\* cached_avail == 0 || cached_avail > N: pop must re-read tail
CacheStaleNoZero(avail) == avail > N

CacheStale(avail) == avail = 0 \/ avail > N

\* ----------------------------------------------------------------- state
VARIABLES
    head, tail, evict_head,     \* the three Index counters
    cached_head, cached_tail,   \* producer / consumer private shadows
    buffer,                     \* slot index -> bits held by the slot
    writing,                    \* slots whose write by push is in progress
    sink,                       \* items the spout has received, in order
    sinkFlushes,                \* number of Spout::flush calls
    pcP, p_item, p_tail, p_head, p_evict,   \* push(&self) in flight
    pcC, c_head, c_evict, c_spec,           \* pop(&self) in flight
    c_stored,                   \* this pop call has stored head
    popped,                     \* items returned as Some(_), in order
    lastPop,                    \* "init", "Some" or "None"
    pushed,                     \* number of items handed to the ring
    dropped,                    \* the ring was dropped
    panicked,                   \* an operation panicked (overflow check)
    last,                       \* the last call made and what it returned
    chain,                      \* a ring chained behind another (ring as spout)
    round,                      \* bookkeeping of a fill-then-drain round trip
    twin,                       \* a cold and a warmed ring given the same calls
    build,                      \* the ring of either build given the same calls
    layout,                     \* the fields of the struct placed so far
    tee,                        \* a TeeSpout and what its two spouts received
    stat,                       \* the last status query made and its answer
    lenCall                     \* len(&self) in flight on the consumer thread

ringVars == <<head, tail, evict_head, cached_head, cached_tail, buffer,
              writing, sink, sinkFlushes>>
prodVars == <<pcP, p_item, p_tail, p_head, p_evict>>
consVars == <<pcC, c_head, c_evict, c_spec, c_stored>>
histVars == <<popped, lastPop, pushed, dropped, panicked, last>>
obsVars == <<twin, build, layout, tee, stat>>
sideVars == <<obsVars, lenCall>>
auxVars == <<chain, round, sideVars>>
vars == <<ringVars, prodVars, consVars, histVars, auxVars>>

\* a call and its return value: the count for flush, the item handed back
\* for try_push's Err(item), 0 where nothing (or Ok(())) is returned
Called(op, ret) == [op |-> op, ret |-> ret]

\* a ring as a value, as left by with_sink_cold; sink holds what its spout
\* has been sent
EmptyRing ==
    [head |-> 0, tail |-> 0, evict_head |-> 0, cached_head |-> 0,
     cached_tail |-> 0, buffer |-> [i \in Slots |-> Uninit], sink |-> <<>>]

\* a new ring of capacity n, as a value (exclusive access only: the shadow
\* counters play no part)
RingOfCapacity(n) ==
    [head |-> 0, tail |-> 0, evict_head |-> 0,
     buffer |-> [i \in 0..(n - 1) |-> Uninit], sink |-> <<>>, cap |-> n]

\* the bytes warm() leaves in a slot: zeroes, which are no item
Zeroed == -2

\* (variant: warm() leaves the N slots it touched counted as items)
WarmCountsSlots(r) ==
    [r EXCEPT !.buffer = [i \in DOMAIN r.buffer |-> Zeroed],
              !.head = 0, !.cached_tail = 0, !.tail = N, !.cached_head = 0,
              !.evict_head = 0]

\* warm(): write_bytes(ptr, 0, ..) on every slot, then all five counters
\* are stored 0
Warm(r) ==
    [r EXCEPT !.buffer = [i \in DOMAIN r.buffer |-> Zeroed],
              !.head = 0, !.cached_tail = 0, !.tail = 0, !.cached_head = 0,
              !.evict_head = 0]

\* the four constructors: cold and with_sink_cold build the ring, new and
\* with_sink build it the same way and warm it
Constructors == {"new", "cold", "with_sink", "with_sink_cold"}

Construct(ctor) ==
    IF ctor \in {"new", "with_sink"} THEN Warm(EmptyRing) ELSE EmptyRing

\* no len call in flight
NoLen == [pc |-> "idle", tail |-> 0, head |-> 0, seen |-> {}]

\* with_sink_cold / warm: all counters 0, all slots uninitialised
Init ==
    /\ head = 0 /\ tail = 0 /\ evict_head = 0
    /\ cached_head = 0 /\ cached_tail = 0
    /\ buffer = [i \in Slots |-> Uninit]
    /\ writing = {}
    /\ sink = <<>>
    /\ sinkFlushes = 0
    /\ pcP = "idle" /\ p_item = 0 /\ p_tail = 0 /\ p_head = 0 /\ p_evict = 0
    /\ pcC = "idle" /\ c_head = 0 /\ c_evict = 0 /\ c_spec = Uninit
    /\ c_stored = FALSE
    /\ popped = <<>>
    /\ lastPop = "init"
    /\ pushed = 0
    /\ dropped = FALSE
    /\ panicked = FALSE
    /\ last = Called("new", 0)
    /\ chain = [a |-> RingOfCapacity(N), b |-> RingOfCapacity(N),
                out |-> <<>>, pushed |-> 0]
    /\ round = [phase |-> "free", pushed |-> 0, popped |-> <<>>, sink |-> <<>>]
    /\ twin = [cold |-> Construct("cold"), warm |-> Construct("new"),
               ret_cold |-> <<>>, ret_warm |-> <<>>, pushed |-> 0,
               op |-> "new"]
    /\ build = [atomics |-> EmptyRing, plain |-> EmptyRing,
                ret_atomics |-> <<>>, ret_plain |-> <<>>, pushed |-> 0,
                op |-> "new"]
    /\ layout = [word |-> 0, elem |-> 0, at |-> <<>>, end |-> 0]
    /\ tee = [pc |-> "idle", item |-> 0, calls |-> <<>>, log |-> <<>>]
    /\ stat = [op |-> "none", arg |-> 0, ret |-> <<>>]
    /\ lenCall = NoLen

Usable == ~dropped /\ ~panicked
Quiescent == pcP = "idle" /\ pcC = "idle"

\* the item count, tail - max(head, evict_head)
TrueLen == WrapSub(tail, Reconcile(head, evict_head))

\* a step of push that moves tail or evict_head: a len call in flight on
\* the other thread has the ring pass through one more item count
Observed ==
    /\ lenCall' = IF lenCall.pc = "idle" THEN lenCall
                  ELSE [lenCall EXCEPT !.seen = @ \cup {TrueLen'}]
    /\ UNCHANGED <<chain, round, obsVars>>

\* ------------------------------------------------------- push(&self, item)
\* (variant: a full test on cached_head alone, head not re-read)
PushLoadTailTrustsCache ==
    /\ Usable /\ pcP = "idle" /\ pushed < MaxPush
    /\ pushed' = pushed + 1
    /\ p_item' = pushed + 1
    /\ p_tail' = tail
    /\ p_head' = cached_head
    /\ pcP' = IF IsFull(tail, cached_head) THEN "load_evict" ELSE "write"
    /\ last' = Called("shared", 0)
    /\ UNCHANGED <<ringVars, p_evict, consVars, popped, lastPop, dropped, panicked>>
    /\ UNCHANGED auxVars

\* let tail = self.tail.load_relaxed(); let mut head = self.cached_head.get();
\* if tail.wrapping_sub(head) >= N { ... }
PushLoadTail ==
    /\ Usable /\ pcP = "idle" /\ pushed < MaxPush
    /\ pushed' = pushed + 1
    /\ p_item' = pushed + 1
    /\ p_tail' = tail
    /\ p_head' = cached_head
    /\ pcP' = IF IsFull(tail, cached_head) THEN "load_head" ELSE "write"
    /\ last' = Called("shared", 0)
    /\ UNCHANGED <<ringVars, p_evict, consVars, popped, lastPop, dropped, panicked>>
    /\ UNCHANGED auxVars

\* (variant: a push that re-reads head until the consumer has made room)
PushLoadHeadSpin ==
    /\ pcP = "load_head"
    /\ p_head' = head
    /\ cached_head' = head
    /\ pcP' = IF IsFull(p_tail, head) THEN "load_head" ELSE "write"
    /\ UNCHANGED <<head, tail, evict_head, cached_tail, buffer, writing, sink,
                   sinkFlushes, p_item, p_tail, p_evict, consVars, histVars>>
    /\ UNCHANGED auxVars

\* head = self.head.load(); self.cached_head.set(head);
\* if tail.wrapping_sub(head) >= N { ... }
PushLoadHead ==
    /\ pcP = "load_head"
    /\ p_head' = head
    /\ cached_head' = head
    /\ pcP' = IF IsFull(p_tail, head) THEN "load_evict" ELSE "write"
    /\ UNCHANGED <<head, tail, evict_head, cached_tail, buffer, writing, sink,
                   sinkFlushes, p_item, p_tail, p_evict, consVars, histVars>>
    /\ UNCHANGED auxVars

\* let mut evict = self.evict_head.load_relaxed(); if evict < head { evict = head; }
PushLoadEvict ==
    /\ pcP = "load_evict"
    /\ p_evict' = EvictIndex(evict_head, p_head)
    /\ pcP' = "evict"
    /\ UNCHANGED <<ringVars, p_item, p_tail, p_head, consVars, histVars>>
    /\ UNCHANGED auxVars

\* (variant: the evict_head store is not made before the slot is written)
PushEvictThenWrite ==
    /\ pcP = "evict"
    /\ sink' = Append(sink, buffer[Mask(p_evict)])
    /\ pcP' = "write"
    /\ UNCHANGED <<head, tail, evict_head, cached_head, cached_tail, buffer,
                   writing, sinkFlushes, p_item, p_tail, p_head, p_evict,
                   consVars, histVars>>
    /\ UNCHANGED auxVars

\* let evicted = buffer[evict & (N - 1)].assume_init_read(); sink.send(evicted);
PushEvict ==
    /\ pcP = "evict"
    /\ sink' = Append(sink, buffer[Mask(p_evict)])
    /\ pcP' = "store_evict"
    /\ UNCHANGED <<head, tail, evict_head, cached_head, cached_tail, buffer,
                   writing, sinkFlushes, p_item, p_tail, p_head, p_evict,
                   consVars, histVars>>
    /\ UNCHANGED auxVars

\* (variant: the evicting push also moves cached_head past the evicted
\* index, as the non-atomic build does)
PushStoreEvictMovesCache ==
    /\ pcP = "store_evict"
    /\ evict_head' = p_evict + 1
    /\ cached_head' = p_evict + 1
    /\ pcP' = "write"
    /\ UNCHANGED <<head, tail, cached_tail, buffer, writing, sink,
                   sinkFlushes, p_item, p_tail, p_head, p_evict, consVars,
                   histVars>>
    /\ UNCHANGED auxVars

\* self.evict_head.store(evict.wrapping_add(1)); fence(Release);
PushStoreEvict ==
    /\ pcP = "store_evict"
    /\ evict_head' = p_evict + 1
    /\ pcP' = "write"
    /\ UNCHANGED <<head, tail, cached_head, cached_tail, buffer, writing, sink,
                   sinkFlushes, p_item, p_tail, p_head, p_evict, consVars,
                   histVars>>
    /\ Observed

\* (*self.buffer[tail & (N - 1)].data.get()).write(item): a plain,
\* non-atomic store; it is in progress from PushWrite to PushWriteDone.
PushWrite ==
    /\ pcP = "write"
    /\ writing' = writing \cup {Mask(p_tail)}
    /\ pcP' = "write_done"
    /\ UNCHANGED <<head, tail, evict_head, cached_head, cached_tail, buffer,
                   sink, sinkFlushes, p_item, p_tail, p_head, p_evict,
                   consVars, histVars>>
    /\ UNCHANGED auxVars

PushWriteDone ==
    /\ pcP = "write_done"
    /\ buffer' = [buffer EXCEPT ![Mask(p_tail)] = p_item]
    /\ writing' = writing \ {Mask(p_tail)}
    /\ pcP' = "store_tail"
    /\ UNCHANGED <<head, tail, evict_head, cached_head, cached_tail, sink,
                   sinkFlushes, p_item, p_tail, p_head, p_evict, consVars,
                   histVars>>
    /\ UNCHANGED auxVars

\* self.tail.store(tail.wrapping_add(1));
PushStoreTail ==
    /\ pcP = "store_tail"
    /\ tail' = p_tail + 1
    /\ pcP' = "idle"
    /\ UNCHANGED <<head, evict_head, cached_head, cached_tail, buffer, writing,
                   sink, sinkFlushes, p_item, p_tail, p_head, p_evict,
                   consVars, histVars>>
    /\ Observed

\* the steps of a push call after its first
PushStep ==
    \/ PushLoadHead \/ PushLoadEvict \/ PushEvict \/ PushStoreEvict
    \/ PushWrite \/ PushWriteDone \/ PushStoreTail

Push == PushLoadTail \/ PushStep

\* ------------------------------------------------------------ pop(&self)
\* loop { let mut head = self.head.load_relaxed();
PopLoadHead ==
    /\ Usable /\ pcC \in {"idle", "retry"}
    /\ c_head' = head
    /\ c_stored' = FALSE
    /\ pcC' = "load_evict"
    /\ last' = Called("shared", 0)
    /\ UNCHANGED <<ringVars, prodVars, c_evict, c_spec, popped, lastPop, pushed,
                   dropped, panicked>>
    /\ UNCHANGED auxVars

\* the bits a plain read of slot i can produce
SlotRead(i) ==
    IF i \in writing THEN {buffer[i], p_item, Torn} ELSE {buffer[i]}

\* let evict = self.evict_head.load(); if head < evict { head = evict; }
\* let mut tail = self.cached_tail.get();
\* let cached_avail = tail.wrapping_sub(head);
\* if cached_avail == 0 || cached_avail > N { (reload tail) }
PopLoadEvict ==
    /\ pcC = "load_evict"
    /\ c_evict' = evict_head
    /\ LET h == Reconcile(c_head, evict_head)
           cached_avail == WrapSub(cached_tail, h)
       IN /\ c_head' = h
          /\ pcC' = IF CacheStale(cached_avail) THEN "load_tail" ELSE "read_slot"
    /\ UNCHANGED <<ringVars, prodVars, c_spec, c_stored, histVars>>
    /\ UNCHANGED auxVars

\* (variant: the empty test is made on the tail cached before the reload)
PopLoadTailTestsCache ==
    /\ pcC = "load_tail"
    /\ cached_tail' = tail
    /\ pcC' = IF c_head = cached_tail THEN "empty" ELSE "read_slot"
    /\ UNCHANGED <<head, tail, evict_head, cached_head, buffer, writing, sink,
                   sinkFlushes, prodVars, c_head, c_evict, c_spec, c_stored, histVars>>
    /\ UNCHANGED auxVars

\* tail = self.tail.load(); self.cached_tail.set(tail); if head == tail { ... }
PopLoadTail ==
    /\ pcC = "load_tail"
    /\ cached_tail' = tail
    /\ pcC' = IF c_head = tail THEN "empty" ELSE "read_slot"
    /\ UNCHANGED <<head, tail, evict_head, cached_head, buffer, writing, sink,
                   sinkFlushes, prodVars, c_head, c_evict, c_spec, c_stored, histVars>>
    /\ UNCHANGED auxVars

\* (variant: pop on an empty ring publishes the skipped evictions to
\* evict_head as well, as pop_mut does)
PopEmptyStoresEvict ==
    /\ pcC = "empty"
    /\ head' = IF c_head # head THEN c_head ELSE head
    /\ c_stored' = (c_head # head)
    /\ evict_head' = c_head
    /\ lastPop' = "None"
    /\ pcC' = "idle"
    /\ UNCHANGED <<tail, cached_head, cached_tail, buffer, writing,
                   sink, sinkFlushes, prodVars, c_head, c_evict, c_spec,
                   popped, pushed, dropped, panicked, last>>
    /\ UNCHANGED auxVars

\* if head != self.head.load_relaxed() { self.head.store(head); } return None;
\* (head is written by the consumer only, so load and store are one step)
PopEmpty ==
    /\ pcC = "empty"
    /\ head' = IF c_head # head THEN c_head ELSE head
    /\ c_stored' = (c_head # head)
    /\ lastPop' = "None"
    /\ pcC' = "idle"
    /\ UNCHANGED <<tail, evict_head, cached_head, cached_tail, buffer, writing,
                   sink, sinkFlushes, prodVars, c_head, c_evict, c_spec,
                   popped, pushed, dropped, panicked, last>>
    /\ UNCHANGED auxVars

\* let speculative = ptr::read(self.buffer[head & (N - 1)].data.get()); fence(Acquire);
PopReadSlot ==
    /\ pcC = "read_slot"
    /\ \E v \in SlotRead(Mask(c_head)) : c_spec' = v
    /\ pcC' = "validate"
    /\ UNCHANGED <<ringVars, prodVars, c_head, c_evict, c_stored, histVars>>
    /\ UNCHANGED auxVars

\* the validation test: evict2 > head
PopInvalidNever(evict2, h) == FALSE

PopInvalidAtHead(evict2, h) == evict2 >= h

PopInvalid(evict2, h) == evict2 > h

\* let evict2 = self.evict_head.load_relaxed(); if evict2 > head { continue; }
PopValidate ==
    /\ pcC = "validate"
    /\ pcC' = IF PopInvalid(evict_head, c_head) THEN "retry" ELSE "commit"
    /\ UNCHANGED <<ringVars, prodVars, c_head, c_evict, c_spec, c_stored, histVars>>
    /\ UNCHANGED auxVars

\* self.head.store(head.wrapping_add(1)); return Some(speculative.assume_init());
PopCommit ==
    /\ pcC = "commit"
    /\ head' = c_head + 1
    /\ c_stored' = TRUE
    /\ popped' = Append(popped, c_spec)
    /\ lastPop' = "Some"
    /\ pcC' = "idle"
    /\ UNCHANGED <<tail, evict_head, cached_head, cached_tail, buffer, writing,
                   sink, sinkFlushes, prodVars, c_head, c_evict, c_spec,
                   pushed, dropped, panicked, last>>
    /\ UNCHANGED auxVars

Pop ==
    \/ PopLoadHead \/ PopLoadEvict \/ PopLoadTail \/ PopEmpty
    \/ PopReadSlot \/ PopValidate \/ PopCommit

\* ------------------------------------------- exclusive-access operations
\* max(head, evict_head): first index not yet popped or evicted
\* (variant: head alone, as the non-atomic build's pop_mut and flush do)
EffHeadNoEvict == head

EffHead == Reconcile(head, evict_head)

\* (variant: the slots are taken from index 0, not from h)
ReadRangeFromZero(h, cnt) == [i \in 1..cnt |-> buffer[Mask(i - 1)]]

\* (0..cnt).map(|i| buffer[(h + i) & (N - 1)].assume_init_read())
ReadRange(h, cnt) == [i \in 1..cnt |-> buffer[Mask(h + i - 1)]]

\* push_mut(&mut self, item)
PushMut ==
    /\ Usable /\ Quiescent /\ pushed < MaxPush
    /\ pushed' = pushed + 1
    /\ IF IsFull(tail, head)
       THEN /\ sink' = Append(sink, buffer[Mask(head)])
            /\ head' = head + 1
       ELSE UNCHANGED <<sink, head>>
    /\ buffer' = [buffer EXCEPT ![Mask(tail)] = pushed + 1]
    /\ tail' = tail + 1
    /\ last' = Called("push_mut", 0)
    /\ UNCHANGED <<evict_head, cached_head, cached_tail, writing, sinkFlushes,
                   prodVars, consVars, popped, lastPop, dropped, panicked>>
    /\ UNCHANGED auxVars

\* (variant: pop_mut hands out the newest item instead of the oldest)
PopMutNewestFirst ==
    /\ Usable /\ Quiescent
    /\ IF EffHead = tail
       THEN /\ head' = EffHead
            /\ evict_head' = EffHead
            /\ lastPop' = "None"
            /\ UNCHANGED popped
       ELSE /\ popped' = Append(popped, buffer[Mask(tail - 1)])
            /\ head' = EffHead + 1
            /\ evict_head' = EffHead + 1
            /\ lastPop' = "Some"
    /\ last' = Called("pop_mut", 0)
    /\ UNCHANGED <<tail, cached_head, cached_tail, buffer, writing, sink,
                   sinkFlushes, prodVars, consVars, pushed, dropped, panicked>>
    /\ UNCHANGED auxVars

\* pop_mut(&mut self) -> Option<T>
PopMut ==
    /\ Usable /\ Quiescent
    /\ IF EffHead = tail
       THEN /\ head' = EffHead
            /\ evict_head' = EffHead
            /\ lastPop' = "None"
            /\ UNCHANGED popped
       ELSE /\ popped' = Append(popped, buffer[Mask(EffHead)])
            /\ head' = EffHead + 1
            /\ evict_head' = EffHead + 1
            /\ lastPop' = "Some"
    /\ last' = Called("pop_mut", 0)
    /\ UNCHANGED <<tail, cached_head, cached_tail, buffer, writing, sink,
                   sinkFlushes, prodVars, consVars, pushed, dropped, panicked>>
    /\ UNCHANGED auxVars

\* head = head.wrapping_add(len); tail = head;  ("Reset ring to empty")
ResetIndexZero(h, len) == 0

ResetIndex(h, len) == h + len

\* (variant: one copy only, the part that wraps to slot 0 is left out)
CopyInOneSegment(buf, tail_idx, keep) ==
    [j \in Slots |->
       IF j >= tail_idx /\ j - tail_idx < Len(keep)
       THEN keep[j - tail_idx + 1]
       ELSE buf[j]]

\* copy_nonoverlapping in at most two segments: keep[1..count] goes to the
\* slots tail_idx .. N-1 and then 0 ..
CopyIn(buf, tail_idx, keep) ==
    LET count == Len(keep)
        space_to_end == N - tail_idx
    IN [j \in Slots |->
          IF j >= tail_idx /\ j - tail_idx < count /\ j - tail_idx < space_to_end
          THEN keep[j - tail_idx + 1]
          ELSE IF count > space_to_end /\ j < count - space_to_end
               THEN keep[space_to_end + j + 1]
               ELSE buf[j]]

\* push_slice(&mut self, items), items = the next k items.  `N - len` is a
\* usize subtraction: when len > N it panics where overflow checks are
\* compiled in and wraps where they are not.
PushSlice(k) ==
    /\ Usable /\ Quiescent /\ k >= 1 /\ pushed + k <= MaxPush
    /\ LET items == [i \in 1..k |-> pushed + i]
           big == k > N
           len0 == WrapSub(tail, head)
           excess == k - N
           sink1 == IF big
                    THEN (sink \o ReadRange(head, len0)) \o SubSeq(items, 1, excess)
                    ELSE sink
           head1 == IF big THEN ResetIndex(head, len0) ELSE head
           tail1 == IF big THEN head1 ELSE tail
           keep == IF big THEN SubSeq(items, excess + 1, k) ELSE items
           len == WrapSub(tail1, head1)
       IN \/ /\ len > N
             /\ panicked' = TRUE
             /\ UNCHANGED <<head, tail, buffer, sink, pushed>>
          \/ /\ LET free == WrapSub(N, len)
                    evicts == Len(keep) > free
                    evict_count == Len(keep) - free
                IN /\ sink' = IF evicts
                              THEN sink1 \o ReadRange(head1, evict_count)
                              ELSE sink1
                   /\ head' = IF evicts THEN head1 + evict_count ELSE head1
             /\ buffer' = CopyIn(buffer, Mask(tail1), keep)
             /\ tail' = tail1 + Len(keep)
             /\ pushed' = pushed + k
             /\ UNCHANGED panicked
    /\ last' = Called("push_slice", 0)
    /\ UNCHANGED <<evict_head, cached_head, cached_tail, writing, sinkFlushes,
                   prodVars, consVars, popped, lastPop, dropped>>
    /\ UNCHANGED auxVars

\* body of flush(&mut self) -> usize
FlushBody ==
    LET h == EffHead
        count == WrapSub(tail, h)
    IN IF count = 0
       THEN UNCHANGED <<head, evict_head, sink>>
       ELSE /\ sink' = sink \o ReadRange(h, count)
            /\ head' = tail
            /\ evict_head' = tail

Flush ==
    /\ Usable /\ Quiescent
    /\ FlushBody
    /\ last' = Called("flush", WrapSub(tail, EffHead))
    /\ UNCHANGED <<tail, cached_head, cached_tail, buffer, writing, sinkFlushes,
                   prodVars, consVars, popped, lastPop, pushed, dropped,
                   panicked>>
    /\ UNCHANGED auxVars

\* RingProducer::try_push(&mut self, item) -> Result<(), T>
\* (variant: try_push on a full ring evicts the oldest item to the spout,
\* as push_mut does)
TryPushEvicts ==
    /\ Usable /\ Quiescent /\ pushed < MaxPush
    /\ IF IsFull(tail, head)
       THEN /\ sink' = Append(sink, buffer[Mask(head)])
            /\ head' = head + 1
       ELSE UNCHANGED <<sink, head>>
    /\ buffer' = [buffer EXCEPT ![Mask(tail)] = pushed + 1]
    /\ tail' = tail + 1
    /\ pushed' = pushed + 1
    /\ last' = Called("try_push", 0)
    /\ UNCHANGED <<evict_head, cached_head, cached_tail, writing, sinkFlushes,
                   prodVars, consVars, popped, lastPop, dropped, panicked>>
    /\ UNCHANGED auxVars

TryPush ==
    /\ Usable /\ Quiescent /\ pushed < MaxPush
    /\ IF IsFull(tail, head)
       THEN /\ last' = Called("try_push", pushed + 1)
            /\ UNCHANGED <<buffer, tail, pushed>>
       ELSE /\ buffer' = [buffer EXCEPT ![Mask(tail)] = pushed + 1]
            /\ tail' = tail + 1
            /\ pushed' = pushed + 1
            /\ last' = Called("try_push", 0)
    /\ UNCHANGED <<head, evict_head, cached_head, cached_tail, writing, sink,
                   sinkFlushes, prodVars, consVars, popped, lastPop, dropped,
                   panicked>>
    /\ UNCHANGED auxVars

\* Drop for SpillRing, first statement: self.flush();
DropFlush ==
    /\ ~dropped /\ Quiescent
    /\ FlushBody
    /\ dropped' = TRUE
    /\ last' = Called("drop", 0)
    /\ UNCHANGED <<tail, cached_head, cached_tail, buffer, writing,
                   sinkFlushes, prodVars, consVars, popped, lastPop, pushed,
                   panicked>>
    /\ UNCHANGED auxVars

\* (variant: the spout is flushed before the ring's items are sent to it)
DropSinkFlushFirst ==
    /\ ~dropped /\ Quiescent /\ last.op # "drop"
    /\ sinkFlushes' = sinkFlushes + 1
    /\ last' = Called("drop", 0)
    /\ UNCHANGED <<head, tail, evict_head, cached_head, cached_tail, buffer,
                   writing, sink, prodVars, consVars, popped, lastPop, pushed,
                   dropped, panicked>>
    /\ UNCHANGED auxVars

\* Drop for SpillRing, second statement: self.sink.get_mut().flush();
DropSinkFlush ==
    /\ dropped /\ last.op = "drop"
    /\ sinkFlushes' = sinkFlushes + 1
    /\ last' = Called("dropped", 0)
    /\ UNCHANGED <<head, tail, evict_head, cached_head, cached_tail, buffer,
                   writing, sink, prodVars, consVars, popped, lastPop, pushed,
                   dropped, panicked>>
    /\ UNCHANGED auxVars

Drop == DropFlush \/ DropSinkFlush

\* ---------------------------------------------------------- specifications
\* one producer calling push, one consumer calling pop, never dropped
NextConc == Push \/ Pop

SpecConc == Init /\ [][NextConc]_vars

\* the same, with the ring flushed or dropped at quiescent points
NextSPSC == Push \/ Pop \/ Flush \/ Drop

SpecSPSC == Init /\ [][NextSPSC]_vars

\* every operation; exclusive ones only between shared-reference calls
Exclusive ==
    \/ PushMut \/ PopMut \/ Flush \/ TryPush
    \/ \E k \in 1..MaxSlice : PushSlice(k)

Next == Push \/ Pop \/ Exclusive \/ Drop

Spec == Init /\ [][Next]_vars

\* the same two threads; the producer's calls are scheduled fairly, the
\* consumer's are not (it may run at any speed or not at all)
SpecPushFair == Init /\ [][NextConc]_vars /\ WF_vars(PushStep)

\* the consumer's steps are scheduled fairly and it keeps calling pop; the
\* producer may stop anywhere, and stops for good after MaxPush calls
SpecPopFair == Init /\ [][NextConc]_vars /\ WF_vars(Pop)

\* single context: every push call completes before the first pop call
SeqPush == pcC = "idle" /\ lastPop = "init" /\ Push
SeqPop == pcP = "idle" /\ Pop
NextSeq == SeqPush \/ SeqPop

SpecSeq == Init /\ [][NextSeq]_vars

\* any sequence of public operations, each call run to completion before
\* the next one starts
SoloPush == pcC = "idle" /\ Push
NextOps == SoloPush \/ SeqPop \/ Exclusive \/ Drop

SpecOps == Init /\ [][NextOps]_vars

\* the same, the drop once begun running to its end
SpecOpsFair == Init /\ [][NextOps]_vars /\ WF_vars(DropSinkFlush)

\* exclusive-access operations only
NextExcl == Exclusive \/ Drop

SpecExcl == Init /\ [][NextExcl]_vars

\* ------------------------------------------------------------- properties
\* everything that left the ring: to the consumer, then to the spout
Delivered == popped \o sink

Range(sq) == {sq[i] : i \in 1..Len(sq)}

StrictlyIncreasing(sq) == \A i \in 1..(Len(sq) - 1) : sq[i] < sq[i + 1]

\* the items held at the valid indices [max(head, evict_head), tail)
InRing == {buffer[Mask(i)] : i \in EffHead..(tail - 1)}

Min(a, b) == IF a < b THEN a ELSE b
Max(a, b) == IF a > b THEN a ELSE b

\* C1: with one producer in push and one consumer in pop, under every
\* interleaving of their steps, no item is delivered twice: the items
\* returned by pop and the items sent to the spout are pairwise distinct.
C1_NoDoubleDelivery ==
    \A i, j \in 1..Len(Delivered) : i # j => Delivered[i] # Delivered[j]

\* C2: no loss.  Every item whose push was called is, at every moment,
\* still held by the push call, or in a valid slot, or delivered; and once
\* the ring is dropped every pushed item has been delivered.
C2_NoLoss ==
    /\ \A k \in 1..pushed :
          \/ k \in Range(Delivered)
          \/ k \in InRing
          \/ pcP # "idle" /\ k = p_item
    /\ dropped => \A k \in 1..pushed : k \in Range(Delivered)

C2_Witness ==
    /\ dropped /\ pushed = MaxPush
    /\ popped # <<>>
    /\ evict_head = tail /\ head = tail
    /\ \E i \in 1..Len(sink) : sink[i] = MaxPush

\* C3: consumer FIFO.  The items returned by successive pops are pushed
\* items in strictly increasing push order.
C3_ConsumerFifo ==
    /\ StrictlyIncreasing(popped)
    /\ Range(popped) \subseteq 1..pushed

C3_Witness ==
    /\ Len(popped) >= 2
    /\ popped[2] > popped[1] + 1
    /\ sink # <<>>

\* C4: spout FIFO.  The items sent to the spout, by evictions in push and
\* by flush (also the flush made by drop), are pushed items in strictly
\* increasing push order.
C4_SpoutFifo ==
    /\ StrictlyIncreasing(sink)
    /\ Range(sink) \subseteq 1..pushed

C4_Witness ==
    /\ dropped
    /\ Len(sink) >= 3
    /\ popped # <<>>
    /\ sink[2] > sink[1] + 1

\* C5: capacity bound.  Between any two steps of concurrent push and pop,
\* tail - max(head, evict_head) is at most N (and not negative).
C5_CapacityBound == WrapSub(tail, EffHead) <= N

C5_Witness ==
    /\ WrapSub(tail, EffHead) = N
    /\ pcP = "store_evict"
    /\ pcC = "validate"
    /\ evict_head > head

\* C6: in every state reachable by push, pop, push_mut, pop_mut, flush,
\* push_slice and try_push, head <= tail and evict_head <= tail.
C6_HeadsBelowTail == head <= tail /\ evict_head <= tail

C6_Witness ==
    /\ head = tail /\ evict_head = tail
    /\ tail > N
    /\ popped # <<>> /\ sink # <<>>
    /\ ~dropped

\* C7: counter monotonicity.  No step of any operation decreases head,
\* tail or evict_head.
C7_CountersMonotone ==
    [][head' >= head /\ tail' >= tail /\ evict_head' >= evict_head]_vars

C7_Witness ==
    /\ head >= N /\ evict_head > head /\ tail > evict_head
    /\ Quiescent

\* C8: sequential overflow.  After k pushes into the empty ring with no pop
\* in between, the spout holds exactly the first max(0, k - N) items in
\* push order; the pops that follow return the last min(k, N) items in
\* push order, and a pop returns None only after all of them.
Kept(k) == [i \in 1..Min(k, N) |-> Max(0, k - N) + i]

C8_SequentialOverflow ==
    /\ pcP = "idle" => sink = [i \in 1..Max(0, pushed - N) |-> i]
    /\ pcP = "idle" /\ pcC = "idle" =>
          /\ Len(popped) <= Min(pushed, N)
          /\ popped = SubSeq(Kept(pushed), 1, Len(popped))
          /\ lastPop = "None" => popped = Kept(pushed)

C8_Witness ==
    /\ pushed = MaxPush /\ pushed > N
    /\ Quiescent /\ lastPop = "None"
    /\ Len(popped) = N
    /\ Len(sink) = pushed - N

\* C9: push is wait-free and always succeeds.  The steps of a push call
\* follow the program order without ever going back, a call in flight
\* completes whatever the consumer does (only the producer is scheduled
\* fairly), and its last step advances tail by exactly one with the new
\* item in a valid slot.
PushOrder == <<"load_head", "load_evict", "evict", "store_evict", "write",
               "write_done", "store_tail">>

PushRank(l) == CHOOSE i \in 1..Len(PushOrder) : PushOrder[i] = l

C9_PushWaitFree ==
    /\ [][PushStep => (pcP' = "idle" \/ PushRank(pcP') > PushRank(pcP))]_vars
    /\ [][pcP = "store_tail" /\ pcP' = "idle" =>
            /\ tail' = tail + 1
            /\ tail' = p_tail + 1
            /\ buffer'[Mask(p_tail)] = p_item
            /\ Reconcile(head', evict_head') <= p_tail]_vars
    /\ (pcP # "idle" ~> pcP = "idle")

C9_Witness ==
    /\ pcP = "idle" /\ pushed = MaxPush /\ tail = MaxPush
    /\ pcC = "idle" /\ lastPop = "init"
    /\ Len(sink) = MaxPush - N
    /\ buffer[Mask(tail - 1)] = MaxPush

\* C10: pop's retries are bounded by evictions.  A pop iteration is retried
\* only if evict_head has advanced, past the slot being read, since the
\* iteration loaded it; every pop call terminates and, the producer making
\* finitely many calls, pops keep returning None in the end.
C10_PopRetryBounded ==
    /\ [][pcC = "validate" /\ pcC' = "retry" =>
            evict_head > c_evict /\ evict_head > c_head]_vars
    /\ (pcC # "idle" ~> pcC = "idle")
    /\ []<>(pcC = "idle" /\ lastPop = "None")

C10_Witness ==
    /\ pcC = "retry"
    /\ evict_head > c_evict
    /\ c_spec # buffer[Mask(c_head)]

\* ------------------------------------------ calls as functions of a state
\* the ring as a value: what a call made at a quiescent point starts from
Ring ==
    [head |-> head, tail |-> tail, evict_head |-> evict_head,
     cached_head |-> cached_head, cached_tail |-> cached_tail,
     buffer |-> buffer, sink |-> sink]

\* the items successive pops would return: those at the indices
\* [max(head, evict_head), tail), oldest first
ContentsOf(r) ==
    LET h == Max(r.head, r.evict_head)
    IN [i \in 1..(r.tail - h) |-> r.buffer[Mask(h + i - 1)]]

Contents == ContentsOf(Ring)

\* push(&self, x) run to completion with no pop in between
PushCall(r, x) ==
    LET t == r.tail
        reload == IsFull(t, r.cached_head)
        h == IF reload THEN r.head ELSE r.cached_head
        full == reload /\ IsFull(t, h)
        evict == EvictIndex(r.evict_head, h)
    IN [r EXCEPT !.cached_head = h,
                 !.sink = IF full THEN Append(@, r.buffer[Mask(evict)]) ELSE @,
                 !.evict_head = IF full THEN evict + 1 ELSE @,
                 !.buffer = [@ EXCEPT ![Mask(t)] = x],
                 !.tail = t + 1]

\* C11: push_mut has the contract of push.  From every quiescent state,
\* push_mut(x) sends to the spout what push(x) would send from that state
\* and leaves the contents (what the following pops return) push(x) would.
C11_PushMutLikePush ==
    [][PushMut =>
         /\ sink' = PushCall(Ring, pushed + 1).sink
         /\ Contents' = ContentsOf(PushCall(Ring, pushed + 1))]_vars

\* pop(&self) run to completion with no push in between: the ring it
\* leaves and what it returns, <<>> for None and <<v>> for Some(v)
PopCall(r) ==
    LET h == Reconcile(r.head, r.evict_head)
        reload == CacheStale(WrapSub(r.cached_tail, h))
        t == IF reload THEN r.tail ELSE r.cached_tail
    IN IF reload /\ h = t
       THEN [ring |-> [r EXCEPT !.cached_tail = t, !.head = h], ret |-> <<>>]
       ELSE [ring |-> [r EXCEPT !.cached_tail = t, !.head = h + 1],
             ret |-> <<r.buffer[Mask(h)]>>]

\* what the pop or pop_mut call that made this step returned
PopReturned == IF lastPop' = "Some" THEN <<popped'[Len(popped')]>> ELSE <<>>

\* C12: pop_mut accounts for the evictions of earlier shared-reference
\* pushes.  It returns the item at index max(head, evict_head), an index
\* that is not below evict_head, or None iff that index equals tail; it
\* leaves head = evict_head; and it returns what pop would return from the
\* same state.
C12_PopMutReconciles ==
    [][PopMut =>
         LET h == Max(head, evict_head)
         IN /\ (lastPop' = "None") <=> (h = tail)
            /\ lastPop' = "Some" => head' - 1 >= evict_head
            /\ popped' = IF h = tail THEN popped
                         ELSE Append(popped, buffer[Mask(h)])
            /\ head' = evict_head'
            /\ head' = IF h = tail THEN h ELSE h + 1
            /\ PopReturned = PopCall(Ring).ret]_vars

C12_Witness ==
    /\ last.op = "pop_mut" /\ lastPop = "Some"
    /\ sink = <<1>>
    /\ popped = <<2>>
    /\ head = 2 /\ evict_head = 2
    /\ cached_head = 0

\* push_mut(&mut self, x) as a function of the ring
PushMutCall(r, x) ==
    LET full == IsFull(r.tail, r.head)
    IN [r EXCEPT !.sink = IF full THEN Append(@, r.buffer[Mask(r.head)]) ELSE @,
                 !.head = IF full THEN @ + 1 ELSE @,
                 !.buffer = [@ EXCEPT ![Mask(r.tail)] = x],
                 !.tail = @ + 1]

\* for x in xs { ring.push_mut(x) }
RECURSIVE PushMutAll(_, _)
PushMutAll(r, xs) ==
    IF xs = <<>> THEN r ELSE PushMutAll(PushMutCall(r, Head(xs)), Tail(xs))

\* how often v occurs in sq
Count(v, sq) == Cardinality({i \in 1..Len(sq) : sq[i] = v})

SameMultiset(s1, s2) ==
    /\ Len(s1) = Len(s2)
    /\ \A v \in Range(s1) \cup Range(s2) : Count(v, s1) = Count(v, s2)

\* a push_slice step, and the slice it was given
PushSliceStep == \E k \in 1..MaxSlice : PushSlice(k)

SliceGiven == [i \in 1..(pushed' - pushed) |-> pushed + i]

\* C13: bulk equivalence.  From every state reached by exclusive-access
\* operations, push_slice(xs) leaves the contents and sends to the spout
\* the multiset of items that push_mut(x) for each x of xs would.
C13_BulkEquivalence ==
    [][PushSliceStep =>
         LET r == PushMutAll(Ring, SliceGiven)
         IN /\ ~panicked'
            /\ pushed' > pushed
            /\ Contents' = ContentsOf(r)
            /\ SameMultiset(sink', r.sink)]_vars

\* a slice longer than N was pushed into a ring that held items
C13_Witness ==
    /\ last.op = "push_slice"
    /\ pushed = MaxPush
    /\ Len(Contents) = N
    /\ Contents[N] = MaxPush
    /\ Len(sink) = MaxPush - N
    /\ popped = <<>>
    /\ head > N

\* the items a step sent to the spout
NewlySent == SubSeq(sink', Len(sink) + 1, Len(sink'))

\* the last n items of sq
LastN(sq, n) == SubSeq(sq, Len(sq) - n + 1, Len(sq))

\* C14: push_slice ordering.  After push_slice(xs) on a ring holding the
\* contents c, the items newly sent to the spout followed by the contents
\* are c ++ xs, and the ring holds the last min(N, |c| + |xs|) of them.
C14_PushSliceOrdering ==
    [][PushSliceStep =>
         LET all == Contents \o SliceGiven
         IN /\ ~panicked'
            /\ pushed' > pushed
            /\ SubSeq(sink', 1, Len(sink)) = sink
            /\ NewlySent \o Contents' = all
            /\ Contents' = LastN(all, Min(N, Len(all)))]_vars

\* len(): tail - max(head, evict_head), clamped to N
LenOf(r) ==
    LET effective == IF r.head < r.evict_head THEN r.evict_head ELSE r.head
        len == WrapSub(r.tail, effective)
    IN IF len > N THEN N ELSE len

\* what flush sends: the items at the indices [max(head, evict_head), tail),
\* in index order
FlushSends ==
    LET h == Max(head, evict_head)
    IN [i \in 1..(tail - h) |-> buffer[Mask(h + i - 1)]]

C16_DropDrainsThenFlushes ==
    /\ [][DropFlush => sink' = sink \o FlushSends /\ Contents' = <<>>]_vars
    /\ [][sinkFlushes' # sinkFlushes =>
            /\ sinkFlushes' = sinkFlushes + 1
            /\ dropped /\ Contents = <<>>
            /\ sink' = sink]_vars
    /\ [](sinkFlushes <= 1)
    /\ [][sinkFlushes = 1 => sink' = sink]_vars
    /\ (dropped ~> sinkFlushes = 1)

\* a full ring that had wrapped around was dropped
C16_Witness ==
    /\ dropped /\ sinkFlushes = 1
    /\ last.op = "dropped"
    /\ tail > N
    /\ Len(sink) >= N
    /\ LastN(sink, N) = [i \in 1..N |-> buffer[Mask(tail - N + i - 1)]]

\* ------------------------------------------------------------ chained rings
\* how many items are pushed to the front ring of a chain
MaxChain == 10

\* the capacities the two chained rings are built with
Capacities == {N, 2 * N}

\* push_mut(&mut self, x) on a ring of capacity r.cap
PushMutN(r, x) ==
    LET full == WrapSub(r.tail, r.head) >= r.cap
    IN [r EXCEPT !.sink = IF full THEN Append(@, r.buffer[r.head % r.cap]) ELSE @,
                 !.head = IF full THEN @ + 1 ELSE @,
                 !.buffer = [@ EXCEPT ![r.tail % r.cap] = x],
                 !.tail = @ + 1]

\* (variant: flush reads the slots from slot 0 on instead of from head on)
FlushNFromZero(r) ==
    LET h == Reconcile(r.head, r.evict_head)
        count == WrapSub(r.tail, h)
    IN IF count = 0
       THEN r
       ELSE [r EXCEPT !.sink = @ \o [i \in 1..count |-> r.buffer[(i - 1) % r.cap]],
                      !.head = r.tail,
                      !.evict_head = r.tail]

\* flush(&mut self) on a ring of capacity r.cap
FlushN(r) ==
    LET h == Reconcile(r.head, r.evict_head)
        count == WrapSub(r.tail, h)
    IN IF count = 0
       THEN r
       ELSE [r EXCEPT !.sink = @ \o [i \in 1..count |->
                                        r.buffer[(h + i - 1) % r.cap]],
                      !.head = r.tail,
                      !.evict_head = r.tail]

\* the items at the indices [max(head, evict_head), tail), oldest first
ContentsN(r) ==
    LET h == Max(r.head, r.evict_head)
    IN [i \in 1..(r.tail - h) |-> r.buffer[(h + i - 1) % r.cap]]

\* for x in xs { ring.send(x) }: Spout::send on a ring is push_mut
RECURSIVE SendAll(_, _)
SendAll(r, xs) ==
    IF xs = <<>> THEN r ELSE SendAll(PushMutN(r, Head(xs)), Tail(xs))

\* ring A after a call (a1.sink is what that call sent to A's spout): every
\* item sent goes into ring B, and what B spills to the collecting sink
ChainSpill(c, a1) ==
    LET b1 == SendAll(c.b, a1.sink)
    IN [a |-> [a1 EXCEPT !.sink = <<>>],
        b |-> [b1 EXCEPT !.sink = <<>>],
        out |-> c.out \o b1.sink,
        pushed |-> c.pushed]

\* SpillRing::<_, na, _>::with_sink(SpillRing::<_, nb, _>::with_sink(collect))
ChainNew ==
    /\ chain.pushed = 0
    /\ \E na \in Capacities, nb \in Capacities :
         chain' = [a |-> RingOfCapacity(na), b |-> RingOfCapacity(nb),
                   out |-> <<>>, pushed |-> 0]
    /\ UNCHANGED <<ringVars, prodVars, consVars, histVars, round, sideVars>>

\* A.push_mut(item)
ChainPushMut ==
    /\ chain.pushed < MaxChain
    /\ chain' = [ChainSpill(chain, PushMutN(chain.a, chain.pushed + 1))
                    EXCEPT !.pushed = chain.pushed + 1]
    /\ UNCHANGED <<ringVars, prodVars, consVars, histVars, round, sideVars>>

\* A.flush()
ChainFlush ==
    /\ chain' = ChainSpill(chain, FlushN(chain.a))
    /\ UNCHANGED <<ringVars, prodVars, consVars, histVars, round, sideVars>>

NextChain == ChainNew \/ ChainPushMut \/ ChainFlush
SpecChain == Init /\ [][NextChain]_vars

\* C17: with ring A spilling into ring B and B into a collecting sink, after
\* any sequence of push_mut and flush calls on A the collecting sink, then
\* B's contents, then A's contents are the items pushed to A in order, and
\* A holds at most NA and B at most NB items.
C17_ChainConserves ==
    /\ chain.out \o ContentsN(chain.b) \o ContentsN(chain.a)
         = [i \in 1..chain.pushed |-> i]
    /\ Len(ContentsN(chain.a)) <= chain.a.cap
    /\ Len(ContentsN(chain.b)) <= chain.b.cap

\* A, the larger ring, was flushed into B and filled again past its
\* capacity, and B has overflowed into the collecting sink
C17_Witness ==
    /\ chain.a.cap > chain.b.cap
    /\ chain.out # <<>>
    /\ chain.a.evict_head > 0
    /\ chain.a.head > chain.a.evict_head
    /\ Len(ContentsN(chain.b)) = chain.b.cap
    /\ Len(ContentsN(chain.a)) = chain.a.cap

\* ------------------------------------------------------ len / is_empty / is_full
\* is_empty(): self.len() == 0
IsEmptyOf(r) == LenOf(r) = 0

\* is_full(): self.len() >= N
IsFullOf(r) == LenOf(r) >= N

\* how many items successive pop() calls return before the first None
\* (at most fuel of them)
RECURSIVE PopsUntilNone(_, _)
PopsUntilNone(r, fuel) ==
    IF fuel = 0
    THEN 0
    ELSE LET p == PopCall(r)
         IN IF p.ret = <<>> THEN 0 ELSE 1 + PopsUntilNone(p.ring, fuel - 1)

\* C18: at every quiescent point reached by a sequence of public operations
\* len() is the number of items successive pops would return before the
\* first None; is_empty() holds iff that number is 0 and is_full() iff it
\* is N.
C18_LenCountsPops ==
    (Usable /\ Quiescent) =>
        LET n == PopsUntilNone(Ring, tail + 1)
        IN /\ LenOf(Ring) = n
           /\ IsEmptyOf(Ring) <=> (n = 0)
           /\ IsFullOf(Ring) <=> (n = N)

\* C19: try_push never evicts.  From any quiescent state it returns
\* Err(item) with that same item exactly when is_full() is true, leaving
\* head, tail, evict_head, the slots and the spout unchanged; otherwise it
\* returns Ok(()), the item becomes the newest element and nothing is sent
\* to the spout.
C19_TryPushNeverEvicts ==
    [][TryPush =>
         IF IsFullOf(Ring)
         THEN /\ last' = Called("try_push", pushed + 1)
              /\ UNCHANGED <<head, tail, evict_head, buffer, sink>>
         ELSE /\ last' = Called("try_push", 0)
              /\ Contents' = Append(Contents, pushed + 1)
              /\ sink' = sink]_vars

\* try_push handed its item back on a ring filled by an evicting push
C19_Witness ==
    /\ last = Called("try_push", pushed + 1)
    /\ evict_head > head
    /\ sink # <<>>
    /\ LenOf(Ring) = N
    /\ Contents = [i \in 1..N |-> pushed - N + i]

\* ------------------------------------------------- fill, then drain()
\* the round trip begins on an empty ring: what was pushed, popped and sent
\* so far is noted
RoundStart ==
    /\ Usable /\ Quiescent
    /\ round.phase = "free"
    /\ IsEmptyOf(Ring)
    /\ round' = [phase |-> "fill", pushed |-> pushed, popped |-> popped,
                 sink |-> sink]
    /\ UNCHANGED <<ringVars, prodVars, consVars, histVars, chain, sideVars>>

\* push_mut of one more item of a sequence of at most N
RoundFill ==
    /\ round.phase = "fill"
    /\ pushed - round.pushed < N
    /\ PushMut

\* drain(): Drain { ring: self }
RoundDrain ==
    /\ round.phase = "fill"
    /\ round' = [round EXCEPT !.phase = "drain"]
    /\ last' = Called("drain", 0)
    /\ UNCHANGED <<ringVars, prodVars, consVars, popped, lastPop, pushed,
                   dropped, panicked, chain, sideVars>>

\* Drain::next: self.ring.pop_mut(), until it has returned None
Exhausted == round.phase = "drain" /\ last.op = "pop_mut" /\ lastPop = "None"

RoundNext ==
    /\ round.phase = "drain" /\ ~Exhausted
    /\ PopMut

\* the exhausted Drain goes out of scope
RoundEnd ==
    /\ Exhausted
    /\ round' = [phase |-> "free", pushed |-> 0, popped |-> <<>>, sink |-> <<>>]
    /\ UNCHANGED <<ringVars, prodVars, consVars, histVars, chain, sideVars>>

\* any public operation, one call at a time, outside a round trip
FreeOp ==
    /\ round.phase = "free"
    /\ NextOps

NextRound ==
    FreeOp \/ RoundStart \/ RoundFill \/ RoundDrain \/ RoundNext \/ RoundEnd

SpecRound == Init /\ [][NextRound]_vars

\* C20: round trip on exclusive access.  Pushing at most N items with
\* push_mut into an empty ring and then exhausting drain() yields exactly
\* the items pushed, in order, sends nothing to the spout and leaves the
\* ring empty.
C20_RoundTrip ==
    /\ round.phase # "free" => sink = round.sink
    /\ Exhausted =>
         /\ popped = round.popped
                       \o [i \in 1..(pushed - round.pushed) |-> round.pushed + i]
         /\ IsEmptyOf(Ring)
         /\ Contents = <<>>

\* N items went into a ring that had wrapped around and evicted before,
\* and drain() has handed all of them out
C20_Witness ==
    /\ Exhausted
    /\ pushed - round.pushed = N
    /\ round.pushed >= N
    /\ round.sink # <<>>
    /\ Len(popped) = Len(round.popped) + N

\* --------------------------------------------- calls on a ring as a value
\* pop_mut(&mut self): the ring it leaves and what it returns
PopMutCall(r) ==
    LET h == Reconcile(r.head, r.evict_head)
    IN IF h = r.tail
       THEN [ring |-> [r EXCEPT !.head = h, !.evict_head = h], ret |-> <<>>]
       ELSE [ring |-> [r EXCEPT !.head = h + 1, !.evict_head = h + 1],
             ret |-> <<r.buffer[Mask(h)]>>]

\* flush(&mut self): the ring it leaves and the count it returns
FlushCall(r) ==
    LET h == Reconcile(r.head, r.evict_head)
        count == WrapSub(r.tail, h)
    IN IF count = 0
       THEN [ring |-> r, ret |-> <<0>>]
       ELSE [ring |-> [r EXCEPT !.sink = @ \o [i \in 1..count |->
                                                 r.buffer[Mask(h + i - 1)]],
                                !.head = r.tail,
                                !.evict_head = r.tail],
             ret |-> <<count>>]

\* try_push(&mut self, x): Err(x) is returned as <<x>>, Ok(()) as <<>>
TryPushCall(r, x) ==
    IF IsFull(r.tail, r.head)
    THEN [ring |-> r, ret |-> <<x>>]
    ELSE [ring |-> [r EXCEPT !.buffer = [@ EXCEPT ![Mask(r.tail)] = x],
                             !.tail = @ + 1],
          ret |-> <<>>]

\* the calls compared, and one of them made on ring r with item x
Calls == {"push", "pop", "push_mut", "pop_mut", "flush", "try_push", "len"}

Pushing == {"push", "push_mut", "try_push"}

CallOn(r, op, x) ==
    CASE op = "push" -> [ring |-> PushCall(r, x), ret |-> <<>>]
      [] op = "pop" -> PopCall(r)
      [] op = "push_mut" -> [ring |-> PushMutCall(r, x), ret |-> <<>>]
      [] op = "pop_mut" -> PopMutCall(r)
      [] op = "flush" -> FlushCall(r)
      [] op = "try_push" -> TryPushCall(r, x)
      [] op = "len" -> [ring |-> r, ret |-> <<LenOf(r)>>]

\* ------------------------------------------------ constructors and warming
\* a ring is built cold, and the same ring built warm
TwinNew ==
    /\ \E c \in {"cold", "with_sink_cold"}, w \in {"new", "with_sink"} :
         twin' = [cold |-> Construct(c), warm |-> Construct(w),
                  ret_cold |-> <<>>, ret_warm |-> <<>>, pushed |-> 0,
                  op |-> w]
    /\ UNCHANGED <<ringVars, prodVars, consVars, histVars, chain, round, build, layout, tee, stat,
                   lenCall>>

\* the same call is made on both
TwinCall ==
    /\ \E op \in Calls :
         /\ op \in Pushing => twin.pushed < MaxPush
         /\ LET c == CallOn(twin.cold, op, twin.pushed + 1)
                w == CallOn(twin.warm, op, twin.pushed + 1)
            IN twin' = [cold |-> c.ring, warm |-> w.ring,
                        ret_cold |-> c.ret, ret_warm |-> w.ret,
                        pushed |-> IF op \in Pushing
                                   THEN twin.pushed + 1 ELSE twin.pushed,
                        op |-> op]
    /\ UNCHANGED <<ringVars, prodVars, consVars, histVars, chain, round, build, layout, tee, stat,
                   lenCall>>

NextTwin == TwinNew \/ TwinCall
SpecTwin == Init /\ [][NextTwin]_vars

Counters(r) == <<r.head, r.tail, r.evict_head, r.cached_head, r.cached_tail>>

\* C21: every constructor returns a ring whose five counters are 0, with
\* is_empty() true and len() 0; and a warmed ring and a cold ring given
\* the same calls return the same results, send the same items to the
\* spout and hold the same counters and contents; no call hands
\* out or sends what the constructor left in a slot.
C21_ConstructorsAndWarm ==
    /\ \A ctor \in Constructors :
         /\ Counters(Construct(ctor)) = <<0, 0, 0, 0, 0>>
         /\ IsEmptyOf(Construct(ctor))
         /\ LenOf(Construct(ctor)) = 0
    /\ twin.op \in Constructors =>
         /\ Counters(twin.cold) = <<0, 0, 0, 0, 0>> /\ LenOf(twin.cold) = 0
         /\ Counters(twin.warm) = <<0, 0, 0, 0, 0>> /\ LenOf(twin.warm) = 0
    /\ twin.ret_cold = twin.ret_warm
    /\ twin.cold.sink = twin.warm.sink
    /\ Counters(twin.cold) = Counters(twin.warm)
    /\ ContentsOf(twin.cold) = ContentsOf(twin.warm)
    /\ Uninit \notin Range(twin.cold.sink)
    /\ Zeroed \notin Range(twin.warm.sink)
    /\ twin.op \in {"pop", "pop_mut"} =>
         Uninit \notin Range(twin.ret_cold) /\ Zeroed \notin Range(twin.ret_warm)

\* an item came back from both rings while a slot never written still
\* holds what the constructor left: nothing in one, zero bytes in the other
C21_Witness ==
    /\ twin.op = "pop"
    /\ twin.ret_warm = <<1>> /\ twin.ret_cold = <<1>>
    /\ \E i \in Slots : twin.cold.buffer[i] = Uninit /\ twin.warm.buffer[i] = Zeroed

\* C22: split ownership.  No step of pop(&self) writes tail, evict_head or
\* cached_head and no step of push(&self) writes head or cached_tail; head
\* is written only by the consumer, tail and evict_head only by the
\* producer.
C22_SplitOwnership ==
    /\ [][Pop => UNCHANGED <<tail, evict_head, cached_head>>]_vars
    /\ [][Push => UNCHANGED <<head, cached_tail>>]_vars
    /\ [][head' # head => Pop]_vars
    /\ [][(tail' # tail \/ evict_head' # evict_head) => Push]_vars

\* both calls are in flight on a ring in which the consumer has advanced
\* head past evictions and the producer has advanced evict_head past head
C22_Witness ==
    /\ pcP # "idle" /\ pcC # "idle"
    /\ head > 0 /\ evict_head > head /\ tail > evict_head
    /\ cached_tail > 0 /\ cached_head > 0

\* ------------------------------------------------- push_and_flush, clear
\* push_and_flush(&mut self, item): self.push_mut(item); self.flush();
PushAndFlush ==
    /\ Usable /\ Quiescent /\ pushed < MaxPush
    /\ LET r == FlushCall(PushMutCall(Ring, pushed + 1)).ring
       IN /\ head' = r.head
          /\ tail' = r.tail
          /\ evict_head' = r.evict_head
          /\ buffer' = r.buffer
          /\ sink' = r.sink
    /\ pushed' = pushed + 1
    /\ last' = Called("push_and_flush", 0)
    /\ UNCHANGED <<cached_head, cached_tail, writing, sinkFlushes, prodVars,
                   consVars, popped, lastPop, dropped, panicked>>
    /\ UNCHANGED auxVars

\* clear(&mut self): self.flush();
Clear ==
    /\ Usable /\ Quiescent
    /\ FlushBody
    /\ last' = Called("clear", 0)
    /\ UNCHANGED <<tail, cached_head, cached_tail, buffer, writing, sinkFlushes,
                   prodVars, consVars, popped, lastPop, pushed, dropped,
                   panicked>>
    /\ UNCHANGED auxVars

\* every operation of the ring: push and pop interleaved, the others on
\* exclusive access
NextAll == Push \/ Pop \/ Exclusive \/ PushAndFlush \/ Clear \/ Drop
SpecAll == Init /\ [][NextAll]_vars

\* C23: the consumer never touches the spout.  No step of pop, pop_mut,
\* drain's next or try_push sends an item to the spout or flushes it; what
\* the spout has received and how often it was flushed changes only in
\* push, push_mut, push_slice, flush, clear, push_and_flush and drop.
C23_ConsumerLeavesSpout ==
    /\ [][(Pop \/ PopMut \/ RoundNext \/ TryPush) =>
            sink' = sink /\ sinkFlushes' = sinkFlushes]_vars
    /\ [][(sink' # sink \/ sinkFlushes' # sinkFlushes) =>
            \/ Push \/ PushMut \/ PushSliceStep
            \/ Flush \/ Clear \/ PushAndFlush \/ Drop]_vars

\* try_push has handed its item back on a full ring whose spout holds
\* evicted items, after pops that returned items
C23_Witness ==
    /\ last = Called("try_push", pushed + 1)
    /\ lastPop = "Some"
    /\ Len(popped) >= 2
    /\ sink # <<>>
    /\ sinkFlushes = 0

\* ------------------------------------- the non-atomic build (no "atomics")
\* push(&self, x): eviction advances head (and cached_head) directly
PlainPushCall(r, x) ==
    LET t == r.tail
        reload == IsFull(t, r.cached_head)
        h == IF reload THEN r.head ELSE r.cached_head
        full == reload /\ IsFull(t, h)
    IN [r EXCEPT !.cached_head = IF full THEN h + 1 ELSE h,
                 !.head = IF full THEN h + 1 ELSE @,
                 !.sink = IF full THEN Append(@, r.buffer[Mask(h)]) ELSE @,
                 !.buffer = [@ EXCEPT ![Mask(t)] = x],
                 !.tail = t + 1]

\* pop(&self): no evict_head to skip to, nothing stored on None
PlainPopCall(r) ==
    LET h == r.head
        reload == CacheStale(WrapSub(r.cached_tail, h))
        t == IF reload THEN r.tail ELSE r.cached_tail
    IN IF reload /\ h = t
       THEN [ring |-> [r EXCEPT !.cached_tail = t], ret |-> <<>>]
       ELSE [ring |-> [r EXCEPT !.cached_tail = t, !.head = h + 1],
             ret |-> <<r.buffer[Mask(h)]>>]

\* pop_mut(&mut self)
PlainPopMutCall(r) ==
    IF r.head = r.tail
    THEN [ring |-> r, ret |-> <<>>]
    ELSE [ring |-> [r EXCEPT !.head = @ + 1], ret |-> <<r.buffer[Mask(r.head)]>>]

\* flush(&mut self): from head, and evict_head is not stored
PlainFlushCall(r) ==
    LET count == WrapSub(r.tail, r.head)
    IN IF count = 0
       THEN [ring |-> r, ret |-> <<0>>]
       ELSE [ring |-> [r EXCEPT !.sink = @ \o [i \in 1..count |->
                                                 r.buffer[Mask(r.head + i - 1)]],
                                !.head = r.tail],
             ret |-> <<count>>]

\* the calls compared across the builds; push_mut and len are the same
\* code in both
BuildCalls == {"push", "pop", "push_mut", "pop_mut", "flush", "len"}

PlainCallOn(r, op, x) ==
    CASE op = "push" -> [ring |-> PlainPushCall(r, x), ret |-> <<>>]
      [] op = "pop" -> PlainPopCall(r)
      [] op = "push_mut" -> [ring |-> PushMutCall(r, x), ret |-> <<>>]
      [] op = "pop_mut" -> PlainPopMutCall(r)
      [] op = "flush" -> PlainFlushCall(r)
      [] op = "len" -> [ring |-> r, ret |-> <<LenOf(r)>>]

\* the same call is made on the ring of either build
BuildCall ==
    /\ \E op \in BuildCalls :
         /\ op \in Pushing => build.pushed < MaxPush
         /\ LET a == CallOn(build.atomics, op, build.pushed + 1)
                q == PlainCallOn(build.plain, op, build.pushed + 1)
            IN build' = [atomics |-> a.ring, plain |-> q.ring,
                         ret_atomics |-> a.ret, ret_plain |-> q.ret,
                         pushed |-> IF op \in Pushing
                                    THEN build.pushed + 1 ELSE build.pushed,
                         op |-> op]
    /\ UNCHANGED <<ringVars, prodVars, consVars, histVars, chain, round, twin, layout, tee, stat,
                   lenCall>>

NextBuild == BuildCall
SpecBuild == Init /\ [][NextBuild]_vars

\* C24: build-variant equivalence.  For every sequence of push, pop,
\* push_mut, pop_mut, flush and len calls made one at a time, the
\* non-atomic build and the atomics build return the same result from
\* every call and send the same sequence of items to the spout.
C24_BuildsAgree ==
    /\ build.ret_atomics = build.ret_plain
    /\ build.atomics.sink = build.plain.sink

\* ------------------------------------------------------ #[repr(C)] layout
\* const CACHE_LINE: usize = 64;
CACHE_LINE == 64

\* size_of::<usize>() on the targets considered, and the alignments of the
\* element type T (its size is taken equal to its alignment)
WordSizes == {2, 4, 8}
ElemAligns == {1, 2, 4, 8, 16, 32, 64, 128}

\* (variant: the padding of the consumer line forgets cached_tail)
HeadPadNoCell(w) == CACHE_LINE - w

\* HEAD_PAD = CACHE_LINE - size_of::<Index>() - size_of::<Cell<usize>>()
HEAD_PAD(w) == CACHE_LINE - w - w

\* TAIL_PAD = CACHE_LINE - 2 * size_of::<Index>() - size_of::<Cell<usize>>()
TAIL_PAD(w) == CACHE_LINE - 2 * w - w

\* the fields of SpillRing in declaration order, up to the buffer: Index and
\* Cell<usize> have the size and alignment of a word, [u8; K] size K and
\* alignment 1, [Slot<T>; N] N elements aligned as T
Fields(w, a) ==
    << [name |-> "head",        size |-> w,           align |-> w],
       [name |-> "cached_tail", size |-> w,           align |-> w],
       [name |-> "_pad_head",   size |-> HEAD_PAD(w), align |-> 1],
       [name |-> "tail",        size |-> w,           align |-> w],
       [name |-> "cached_head", size |-> w,           align |-> w],
       [name |-> "evict_head",  size |-> w,           align |-> w],
       [name |-> "_pad_tail",   size |-> TAIL_PAD(w), align |-> 1],
       [name |-> "buffer",      size |-> N * a,       align |-> a] >>

FieldCount == Len(Fields(1, 1))

\* the next multiple of align at or after off
RoundUp(off, align) == ((off + align - 1) \div align) * align

\* a target and an element type are chosen
LayoutNew ==
    /\ \E w \in WordSizes, a \in ElemAligns :
         layout' = [word |-> w, elem |-> a, at |-> <<>>, end |-> 0]
    /\ UNCHANGED <<ringVars, prodVars, consVars, histVars, chain, round,
                   twin, build, tee, stat, lenCall>>

\* repr(C): the next field goes to the first offset at or after the end of
\* the one before it that its alignment allows
LayoutPlace ==
    /\ layout.word > 0
    /\ Len(layout.at) < FieldCount
    /\ LET f == Fields(layout.word, layout.elem)[Len(layout.at) + 1]
           off == RoundUp(layout.end, f.align)
       IN layout' = [layout EXCEPT !.at = Append(@, off), !.end = off + f.size]
    /\ UNCHANGED <<ringVars, prodVars, consVars, histVars, chain, round,
                   twin, build, tee, stat, lenCall>>

NextLayout == LayoutNew \/ LayoutPlace
SpecLayout == Init /\ [][NextLayout]_vars

\* mem::offset_of!(Ring, field), once the field is placed
OffsetOf(name) ==
    LET i == CHOOSE j \in 1..FieldCount :
                 Fields(layout.word, layout.elem)[j].name = name
    IN layout.at[i]

LineOf(name) == OffsetOf(name) \div CACHE_LINE

C26_PushAndFlushOrder ==
    [][PushAndFlush =>
         /\ sink' = sink \o Contents \o <<pushed + 1>>
         /\ Contents' = <<>>
         /\ IsEmptyOf(Ring')]_vars

\* ---------------------------------------------------------------- TeeSpout
\* how many calls are made on the tee
MaxTee == 6

\* what a spout is handed by a flush call, in the log of what the two inner
\* spouts received (items are 1, 2, ...)
FlushMark == 0

\* item.clone(): an equal item
Clone(x) == x

TeeRest == <<ringVars, prodVars, consVars, histVars, chain, round, twin,
             build, layout, stat, lenCall>>

\* (variant: send hands the item to a only)
TeeSendOnlyA ==
    /\ tee.pc = "idle" /\ Len(tee.calls) < MaxTee
    /\ LET item == Len(SelectSeq(tee.calls, LAMBDA c : c # FlushMark)) + 1
       IN tee' = [pc |-> "idle", item |-> item,
                  calls |-> Append(tee.calls, item),
                  log |-> Append(tee.log, [to |-> "a", got |-> Clone(item)])]
    /\ UNCHANGED TeeRest

\* send(&mut self, item): self.a.send(item.clone());
TeeSend ==
    /\ tee.pc = "idle" /\ Len(tee.calls) < MaxTee
    /\ LET item == Len(SelectSeq(tee.calls, LAMBDA c : c # FlushMark)) + 1
       IN tee' = [pc |-> "send_b", item |-> item,
                  calls |-> Append(tee.calls, item),
                  log |-> Append(tee.log, [to |-> "a", got |-> Clone(item)])]
    /\ UNCHANGED TeeRest

\* self.b.send(item);
TeeSendB ==
    /\ tee.pc = "send_b"
    /\ tee' = [tee EXCEPT !.pc = "idle",
                          !.log = Append(@, [to |-> "b", got |-> tee.item])]
    /\ UNCHANGED TeeRest

\* flush(&mut self): self.a.flush();
TeeFlush ==
    /\ tee.pc = "idle" /\ Len(tee.calls) < MaxTee
    /\ tee' = [tee EXCEPT !.pc = "flush_b",
                          !.calls = Append(@, FlushMark),
                          !.log = Append(@, [to |-> "a", got |-> FlushMark])]
    /\ UNCHANGED TeeRest

\* self.b.flush();
TeeFlushB ==
    /\ tee.pc = "flush_b"
    /\ tee' = [tee EXCEPT !.pc = "idle",
                          !.log = Append(@, [to |-> "b", got |-> FlushMark])]
    /\ UNCHANGED TeeRest

NextTee == TeeSend \/ TeeSendB \/ TeeFlush \/ TeeFlushB
SpecTee == Init /\ [][NextTee]_vars

\* what inner spout x has received, sends and flushes, in order
ReceivedBy(x) ==
    LET mine == SelectSeq(tee.log, LAMBDA e : e.to = x)
    IN [i \in 1..Len(mine) |-> mine[i].got]

\* C27: TeeSpout delivers every item to both inner spouts.  After any
\* sequence of send and flush calls both have received the same items in
\* the same order, the items sent, a receiving each item before b; each
\* flush of the tee flushes a and then b.
C27_TeeDeliversToBoth ==
    /\ \A i \in 1..Len(tee.log) :
         IF i % 2 = 1
         THEN tee.log[i].to = "a"
         ELSE tee.log[i].to = "b" /\ tee.log[i].got = tee.log[i - 1].got
    /\ ReceivedBy("a") = tee.calls
    /\ tee.pc = "idle" => ReceivedBy("b") = tee.calls

\* two items and a flush between them have gone through the tee
C27_Witness ==
    /\ tee.pc = "idle"
    /\ tee.calls = <<1, FlushMark, 2>>
    /\ ReceivedBy("b") = <<1, FlushMark, 2>>
    /\ Len(tee.log) = 6

\* ------------------------------------------------------ error status values
\* the u32 values from_u32 is tried on: 0..MaxStatus and a large one
MaxStatus == 120

LargeU32 == 2147483647

U32Inputs == 0..MaxStatus \cup {LargeU32}

\* enum ErrorStatusValue and its discriminants (#[repr(u32)])
StatusValues == {"Permanent", "Temporary", "Persistent"}

Discriminant(s) ==
    CASE s = "Permanent" -> 0
      [] s = "Temporary" -> 1
      [] s = "Persistent" -> 2

\* is_retryable(&self): matches!(self, Self::Temporary)
IsRetryable(s) == s = "Temporary"

\* (variant: from_u32 with the arms of 1 and 2 exchanged)
FromU32Swapped(value) ==
    CASE value = 0 -> <<"Permanent">>
      [] value = 1 -> <<"Persistent">>
      [] value = 2 -> <<"Temporary">>
      [] OTHER -> <<>>

\* from_u32(value): None is <<>>, Some(s) is <<s>>
FromU32(value) ==
    CASE value = 0 -> <<"Permanent">>
      [] value = 1 -> <<"Temporary">>
      [] value = 2 -> <<"Persistent">>
      [] OTHER -> <<>>

\* the typestate markers with their associated constants
Markers == {"Dynamic", "Temporary", "Persistent", "Permanent"}

MarkerValue(m) ==
    CASE m = "Dynamic" -> <<>>
      [] m = "Temporary" -> <<"Temporary">>
      [] m = "Persistent" -> <<"Persistent">>
      [] m = "Permanent" -> <<"Permanent">>

MarkerIsRetryable(m) ==
    CASE m = "Dynamic" -> <<>>
      [] m = "Temporary" -> <<TRUE>>
      [] m = "Persistent" -> <<FALSE>>
      [] m = "Permanent" -> <<FALSE>>

\* impl Terminal for ..; impl NonTerminal for ..
TerminalMarkers == {"Persistent", "Permanent"}
NonTerminalMarkers == {"Dynamic", "Temporary"}

StatRest == <<ringVars, prodVars, consVars, histVars, chain, round, twin,
              build, layout, tee, lenCall>>

\* ErrorStatusValue::from_u32(value)
StatFromU32 ==
    /\ \E value \in U32Inputs :
         stat' = [op |-> "from_u32", arg |-> value, ret |-> FromU32(value)]
    /\ UNCHANGED StatRest

\* Actionable::is_retryable on an error whose status_value() is s:
\* self.status_value().is_retryable()
StatIsRetryable ==
    /\ \E s \in StatusValues :
         stat' = [op |-> "is_retryable", arg |-> s, ret |-> <<IsRetryable(s)>>]
    /\ UNCHANGED StatRest

\* <M as Status>::IS_RETRYABLE for a marker M
StatMarker ==
    /\ \E m \in Markers :
         stat' = [op |-> "IS_RETRYABLE", arg |-> m, ret |-> MarkerIsRetryable(m)]
    /\ UNCHANGED StatRest

NextStat == StatFromU32 \/ StatIsRetryable \/ StatMarker
SpecStat == Init /\ [][NextStat]_vars

\* C28: error status classification is consistent.  is_retryable is true
\* only for Temporary; from_u32 maps 0, 1, 2 to the values with these
\* discriminants, Permanent, Temporary, Persistent, and every other value
\* to None; for every marker with a known VALUE, IS_RETRYABLE is
\* Some(VALUE.is_retryable()); exactly Persistent and Permanent are
\* Terminal.
C28_StatusConsistent ==
    /\ stat.op = "is_retryable" =>
         stat.ret = <<stat.arg = "Temporary">>
    /\ stat.op = "from_u32" =>
         /\ stat.arg = 0 => stat.ret = <<"Permanent">>
         /\ stat.arg = 1 => stat.ret = <<"Temporary">>
         /\ stat.arg = 2 => stat.ret = <<"Persistent">>
         /\ stat.arg > 2 => stat.ret = <<>>
         /\ \A s \in StatusValues :
              (stat.ret = <<s>>) <=> (Discriminant(s) = stat.arg)
    /\ stat.op = "IS_RETRYABLE" =>
         /\ MarkerValue(stat.arg) # <<>> =>
              stat.ret = <<IsRetryable(MarkerValue(stat.arg)[1])>>
         /\ (stat.arg \in TerminalMarkers)
              <=> (stat.arg \in {"Persistent", "Permanent"})
         /\ (stat.arg \in NonTerminalMarkers) <=> (stat.arg \notin TerminalMarkers)

\* from_u32(2) has answered Some(Persistent)
C28_Witness ==
    /\ stat.op = "from_u32"
    /\ stat.arg = 2
    /\ stat.ret = <<"Persistent">>

\* C29: seqlock validation.  Whenever a concurrent pop commits, returning
\* Some(v) for the logical index h, v is the item pushed at index h (item
\* h + 1, the pushes being numbered from 1); when the producer has evicted
\* the slot, or evicted it and written the item of index h + N over it,
\* before the validation load, that load sees evict_head > h and the pop
\* retries instead of returning the copy.
C29_SeqlockValidation ==
    /\ [][PopCommit => c_spec = c_head + 1 /\ popped' = Append(popped, c_head + 1)]_vars
    /\ [][pcC = "validate" /\ pcC' # pcC =>
            IF evict_head > c_head THEN pcC' = "retry" ELSE pcC' = "commit"]_vars
    /\ [](pcC = "commit" => c_spec = c_head + 1)
    /\ [](pcC = "validate" /\ c_spec # c_head + 1 => evict_head > c_head)

\* the pop read the slot after the producer had written the item of index
\* h + N over it, and is retrying
C29_Witness ==
    /\ pcC = "retry"
    /\ c_spec = c_head + N + 1
    /\ evict_head > c_head
    /\ popped # <<>>

Evicting ==
    /\ pcP \in {"load_evict", "evict", "store_evict", "write", "write_done",
                "store_tail"}
    /\ IsFull(p_tail, p_head)

\* the stages of the push in flight
EvictSent == sink # <<>> /\ sink[Len(sink)] = p_evict + 1
EvictAdvanced == evict_head > p_evict
SlotTouched == Mask(p_tail) \in writing \/ buffer[Mask(p_tail)] = p_item

\* C31: step order of an evicting push.  The evicted item is read and sent
\* to the spout, then evict_head is advanced, then the new item is written,
\* and the tail store is the last step: while the call is in flight tail is
\* unmoved, the slot is touched only once evict_head is past the evicted
\* index, and evict_head is past it only once the item has been sent.  In
\* no state does a slot hold (or receive) a new item while max(head,
\* evict_head) still covers the index the slot held before, and every index
\* that tail covers holds its fully written item.
C31_EvictingPushOrder ==
    /\ [](Evicting /\ pcP # "load_evict" =>
            /\ tail = p_tail
            /\ (SlotTouched => EvictAdvanced)
            /\ (EvictAdvanced => EvictSent)
            /\ (pcP \in {"write_done", "store_tail"} => EvictAdvanced))
    /\ [](pcP \in {"write_done", "store_tail"} => EffHead > p_tail - N)
    /\ [](\A i \in EffHead..(tail - 1) :
            Mask(i) \notin writing /\ buffer[Mask(i)] = i + 1)
    /\ [][Evicting' /\ pcP' # pcP =>
            \/ pcP = "load_head" /\ pcP' = "load_evict"
            \/ pcP = "load_evict" /\ pcP' = "evict"
            \/ pcP = "evict" /\ pcP' = "store_evict" /\ EvictSent'
                 /\ evict_head' = evict_head /\ buffer' = buffer
            \/ pcP = "store_evict" /\ pcP' = "write" /\ EvictAdvanced'
                 /\ buffer' = buffer /\ writing' = writing
            \/ pcP = "write" /\ pcP' = "write_done"
            \/ pcP = "write_done" /\ pcP' = "store_tail" /\ tail' = tail]_vars
    /\ [][tail' # tail =>
            /\ pcP = "store_tail" /\ pcP' = "idle"
            /\ buffer[Mask(tail)] = p_item
            /\ tail' = tail + 1]_vars

\* an evicting push has written its item and is about to store tail, with
\* a pop in flight on the other thread
C31_Witness ==
    /\ Evicting /\ pcP = "store_tail"
    /\ EvictSent /\ evict_head = p_evict + 1
    /\ buffer[Mask(p_tail)] = p_item
    /\ tail = p_tail
    /\ pcC = "validate"

\* push and pop calls made one after the other from a single context
NextCalls == SoloPush \/ SeqPop

SpecCalls == Init /\ [][NextCalls]_vars

\* the push in flight has sent its evicted item / has stored evict_head
PastStore == pcP \in {"write", "write_done", "store_tail"} /\ IsFull(p_tail, p_head)
PastSend == pcP = "store_evict" \/ PastStore

\* what the ring held when the push in flight was called, worked back from
\* the steps it has made: the spout's count, len() and the oldest item
SunkAtCall == IF PastSend THEN Len(sink) - 1 ELSE Len(sink)
EffAtCall == IF PastStore THEN p_evict ELSE EffHead
LenAtCall == Min(WrapSub(p_tail, EffAtCall), N)
OldestAtCall == buffer[Mask(EffAtCall)]

\* C32: a push evicts only when the ring is full, and then one item.  In
\* every sequence of push and pop calls, a push called with len() < N
\* leaves the spout as it was, also when cached_head was stale (head is
\* re-read and the second test fails); a push called with len() = N sends
\* exactly one item, the oldest in the ring, and leaves len() = N.
C32_PushEvictsOnlyWhenFull ==
    /\ [][PushLoadTail =>
            /\ SunkAtCall' = Len(sink)
            /\ LenAtCall' = LenOf(Ring)
            /\ (LenOf(Ring) > 0 => OldestAtCall' = Contents[1])]_vars
    /\ [][pcP # "idle" /\ pcP' # "idle" =>
            /\ SunkAtCall' = SunkAtCall
            /\ LenAtCall' = LenAtCall
            /\ (pcP' \in {"load_head", "load_evict", "evict"} =>
                  OldestAtCall' = OldestAtCall)]_vars
    /\ [][sink' # sink =>
            /\ pcP = "evict" /\ LenAtCall = N
            /\ sink' = Append(sink, OldestAtCall)]_vars
    /\ [][PushStoreTail =>
            /\ LenAtCall < N => Len(sink) = SunkAtCall /\ LenOf(Ring)' = LenAtCall + 1
            /\ LenAtCall = N =>
                 /\ Len(sink) = SunkAtCall + 1
                 /\ sink[Len(sink)] < Contents'[1]
                 /\ LenOf(Ring)' = N]_vars

\* a push called with one free slot and a stale cached_head has re-read
\* head and goes on to write without evicting
C32_Witness ==
    /\ pcP = "write" /\ p_tail = N
    /\ head = 1 /\ cached_head = 1 /\ evict_head = 0
    /\ popped = <<1>> /\ sink = <<>>
    /\ LenAtCall = N - 1

\* C33: the index an evicting push evicts is the one it overwrites.  In
\* every interleaving of push and pop, the index push takes for eviction,
\* max(evict_head, head as just loaded), is tail - N: it evicts the slot
\* its item goes into.  The slot a push writes lies outside the valid
\* indices, and the item it overwrites had been evicted by this call (when
\* it evicts) or had left the ring before.
C33_EvictsSlotItOverwrites ==
    /\ [][PushLoadEvict =>
            /\ p_evict' = Max(evict_head, p_head)
            /\ p_evict' = tail - N]_vars
    /\ [](pcP \in {"evict", "store_evict"} =>
            /\ p_evict = p_tail - N
            /\ Mask(p_evict) = Mask(p_tail))
    /\ [](pcP \in {"write", "write_done"} =>
            \A i \in EffHead..(tail - 1) : Mask(i) # Mask(p_tail))
    /\ [][PushWriteDone =>
            /\ buffer[Mask(p_tail)] \in {Uninit} \cup Range(Delivered)
            /\ (Evicting => buffer[Mask(p_tail)] = sink[Len(sink)])]_vars

\* a push is evicting an index above both head and the evict_head of the
\* first eviction, while a pop is in flight
C33_Witness ==
    /\ pcP = "store_evict"
    /\ p_evict = p_tail - N /\ p_evict > p_head
    /\ p_head > 0
    /\ pcC = "read_slot"

\* C34: no spurious empty.  A concurrent pop returns None only through its
\* empty test, made on the tail it has just loaded; at the instant of that
\* load the ring is empty, tail = max(head, evict_head).  When it returns
\* None, every item whose tail store was made before that load (so every
\* item stored before the call began) has been handed to the consumer or
\* to the spout: none of them is still in the ring.
C34_NoSpuriousEmpty ==
    /\ [][lastPop' = "None" /\ lastPop' # lastPop => pcC = "empty"]_vars
    /\ [][PopEmpty => lastPop' = "None" /\ popped' = popped]_vars
    /\ [][pcC' = "empty" /\ pcC # "empty" =>
            /\ pcC = "load_tail"
            /\ tail = Max(head, evict_head)
            /\ c_head = tail /\ cached_tail' = tail]_vars
    /\ [](pcC = "empty" =>
            /\ c_head = cached_tail
            /\ Max(head, evict_head) >= c_head
            /\ \A k \in 1..c_head : k \in Range(Delivered))

\* a pop has returned None after earlier items were popped, while a push
\* has written its item and not yet stored tail
C34_Witness ==
    /\ pcC = "idle" /\ lastPop = "None"
    /\ popped # <<>>
    /\ tail = Max(head, evict_head)
    /\ pcP = "store_tail" /\ buffer[Mask(p_tail)] = p_item

\* C35: the shadow counters never run ahead.  In every state reached by
\* push and pop interleaved and the exclusive-access operations between
\* them, cached_head <= head and cached_tail <= tail; the shadows change
\* only where push re-reads head and pop re-reads tail.  A push that passes
\* its full test on cached_head, without re-reading head, writes a slot
\* outside the indices still in the ring; a pop that passes its empty test
\* on cached_tail, without re-reading tail, reads an index below tail.
C35_ShadowsNeverAhead ==
    /\ [](cached_head <= head /\ cached_tail <= tail)
    /\ [][/\ cached_head' # cached_head => pcP = "load_head" /\ cached_head' = head
          /\ cached_tail' # cached_tail => pcC = "load_tail" /\ cached_tail' = tail]_vars
    /\ [][PushLoadTail /\ pcP' = "write" =>
            /\ ~IsFull(tail, cached_head) /\ ~IsFull(tail, head)
            /\ \A i \in EffHead..(tail - 1) : Mask(i) # Mask(tail)]_vars
    /\ [][PopLoadEvict /\ pcC' = "read_slot" =>
            /\ c_head' < cached_tail /\ c_head' < tail
            /\ c_head' >= EffHead]_vars
    /\ [](pcC = "read_slot" => c_head < tail)

\* a push has passed its full test on a cached_head that lags head, after
\* an exclusive-access operation has moved the counters, and cached_tail
\* lags tail
C35_Witness ==
    /\ pcP = "write" /\ p_head = cached_head
    /\ cached_head < head
    /\ cached_tail < tail
    /\ evict_head = head /\ sink # <<>>
    /\ pcC = "idle"

\* C36: push_slice's free-space computation never underflows.  In every
\* quiescent state reached by any sequence of public operations, evicting
\* pushes included, tail - head <= N, so that push_slice's
\* free = N - (tail - head) lies in [0, N]: no call of push_slice
\* overflows, and the number of items a call evicts is at most the number
\* of items the ring held.
C36_PushSliceFreeInRange ==
    /\ [](Usable /\ Quiescent => WrapSub(tail, head) <= N)
    /\ [][PushSliceStep =>
            /\ ~panicked'
            /\ WrapSub(N, WrapSub(tail, head)) \in 0..N
            /\ head' - head <= LenOf(Ring)]_vars

\* --------------------------------------------------------------- len(&self)
\* let tail = self.tail.load();
LenLoadTail ==
    /\ Usable /\ pcC = "idle" /\ lenCall.pc = "idle"
    /\ lenCall' = [pc |-> "load_head", tail |-> tail, head |-> 0,
                   seen |-> {TrueLen}]
    /\ UNCHANGED <<ringVars, prodVars, consVars, histVars, chain, round, obsVars>>

\* let head = self.head.load();
LenLoadHead ==
    /\ lenCall.pc = "load_head"
    /\ lenCall' = [lenCall EXCEPT !.pc = "load_evict", !.head = head]
    /\ UNCHANGED <<ringVars, prodVars, consVars, histVars, chain, round, obsVars>>

\* let evict = self.evict_head.load();
\* let effective = if head < evict { evict } else { head };
\* let len = tail.wrapping_sub(effective); if len > N { N } else { len }
LenLoadEvict ==
    /\ lenCall.pc = "load_evict"
    /\ LET effective == IF lenCall.head < evict_head THEN evict_head
                        ELSE lenCall.head
           len == WrapSub(lenCall.tail, effective)
       IN last' = Called("len", IF len > N THEN N ELSE len)
    /\ lenCall' = NoLen
    /\ UNCHANGED <<ringVars, prodVars, consVars, popped, lastPop, pushed,
                   dropped, panicked, chain, round, obsVars>>

LenStep == LenLoadTail \/ LenLoadHead \/ LenLoadEvict

\* the consumer thread calls pop and len one after the other, the producer
\* thread pushes meanwhile
LenPop == lenCall.pc = "idle" /\ Pop

NextLen == Push \/ LenPop \/ LenStep

SpecLen == Init /\ [][NextLen]_vars

\* C37: len() under concurrent pushes.  The value a len call on the
\* consumer thread returns, its three loads interleaved with the steps of
\* a push, is the item count tail - max(head, evict_head) the ring had at
\* some instant between the call's first load and its return.
C37_LenSeenDuringCall ==
    [][LenLoadEvict => last'.ret \in lenCall.seen]_vars

====
